---- MODULE Spec2Model ----
(***************************************************************************)
(* PromptGallery: the prompt CRUD path                                     *)
(*   handlers (PromptHandler) -> service (PromptService)                   *)
(*                            -> repository (PromptRepository) -> store.   *)
(*                                                                         *)
(* Text values (titles, search terms, ...) are sequences of one-character  *)
(* strings, so that length, case folding and LIKE matching are computed.   *)
(* Error messages are sequences of words, so that the handlers' substring  *)
(* tests (strings.Contains) are computed.                                  *)
(***************************************************************************)
EXTENDS Integers, Sequences, FiniteSets, Bags, TLC

VARIABLES
    store,      \* table "prompts": row i has primary key i (serial id)
    views,      \* bag of ids: IncrementViewCount goroutines dispatched, not yet run
    deleting,   \* bag of ids: DeletePrompt calls between Exists and Delete
    listing,    \* bag of FindAll calls between the Count query and the Find query
    resp,       \* what the latest step answered (NoResponse: the step answered nothing)
    requests    \* table "prompt_requests": row i has primary key i

vars == <<store, views, deleting, listing, resp, requests>>

----------------------------------------------------------------------------
(* Bounds of the model *)

\* rows ever inserted into the table
MaxPrompts == 2
\* calls that are in flight at once (dispatched increments, deletes and lists
\* between their two queries)
MaxInFlight == 2
\* view-count increments dispatched for one prompt
MaxViews == 2
\* rows ever inserted into the table of prompt requests
MaxRequests == 1

----------------------------------------------------------------------------
(* Text *)

\* strings.ToLower / SQL LOWER on the letters the model uses
LowerChar(c) ==
    CASE c = "A" -> "a"
      [] c = "B" -> "b"
      [] c = "C" -> "c"
      [] c = "D" -> "d"
      [] OTHER -> c

ToLower(s) == [i \in 1..Len(s) |-> LowerChar(s[i])]

\* strings.Contains on texts
ContainsText(s, sub) ==
    \E i \in 0..(Len(s) - Len(sub)) : SubSeq(s, i + 1, i + Len(sub)) = sub

\* SQL `s LIKE p`: "%" matches any run of characters, "_" any one character,
\* every other character itself.
RECURSIVE LikeFrom(_, _, _, _)
LikeFrom(s, i, p, j) ==
    IF j > Len(p) THEN i > Len(s)
    ELSE IF p[j] = "%"
         THEN LikeFrom(s, i, p, j + 1) \/ (i <= Len(s) /\ LikeFrom(s, i + 1, p, j))
         ELSE /\ i <= Len(s)
              /\ (p[j] = "_" \/ p[j] = s[i])
              /\ LikeFrom(s, i + 1, p, j + 1)

Like(s, p) == LikeFrom(s, 1, p, 1)

\* strings.Contains on error messages (sequences of words)
Contains(msg, words) ==
    \E i \in 0..(Len(msg) - Len(words)) : SubSeq(msg, i + 1, i + Len(words)) = words

----------------------------------------------------------------------------
(* Go's int on a 64-bit build: four 16-bit limbs, least significant first, *)
(* two's complement.  Arithmetic wraps modulo 2^64 as Go's does.           *)

LimbBase == 2^16
SignLimb == 2^15

\* the int with value n, for 0 <= n < 2^31
Int64(n) == <<n % LimbBase, (n \div LimbBase) % LimbBase, 0, 0>>

IsNegative(x) == x[4] >= SignLimb
IsZero(x) == x = <<0, 0, 0, 0>>

\* x < 1
LessThanOne(x) == IsNegative(x) \/ IsZero(x)

\* x - 1, for x >= 1
RECURSIVE BorrowFrom(_, _)
BorrowFrom(x, i) ==
    IF i > 4 THEN x
    ELSE IF x[i] > 0 THEN [x EXCEPT ![i] = x[i] - 1]
         ELSE BorrowFrom([x EXCEPT ![i] = LimbBase - 1], i + 1)

MinusOne(x) == BorrowFrom(x, 1)

\* x * k modulo 2^64, for 0 <= k < 2^15
RECURSIVE MulFrom(_, _, _, _)
MulFrom(x, k, i, carry) ==
    IF i > 4 THEN x
    ELSE LET v == x[i] * k + carry
         IN  MulFrom([x EXCEPT ![i] = v % LimbBase], k, i + 1, v \div LimbBase)

Times(x, k) == MulFrom(x, k, 1, 0)

\* x >= 0 and x < 2^31, and then its value
Fits(x) == x[3] = 0 /\ x[4] = 0 /\ x[2] < SignLimb
Small(x) == x[2] * LimbBase + x[1]

\* x > n, for a small n >= 0
GreaterThan(x, n) == ~IsNegative(x) /\ (~Fits(x) \/ Small(x) > n)

\* min(x, n) for x > 0 and a small n >= 0: how many of n rows an OFFSET x skips
SkipOf(x, n) == IF GreaterThan(x, n) THEN n ELSE Small(x)

----------------------------------------------------------------------------
(* models: Prompt, DifficultyLevel, PromptCreateRequest *)

DifficultyBeginner == <<"beginner">>
DifficultyIntermediate == <<"intermediate">>
DifficultyAdvanced == <<"advanced">>
DifficultyExpert == <<"expert">>

\* DifficultyLevel.Valid
Valid(d) ==
    d \in {DifficultyBeginner, DifficultyIntermediate, DifficultyAdvanced, DifficultyExpert}

\* ToPrompt handing out a prompt that is already verified and viewed
ToPromptVerified(req) ==
    [ID |-> 0, CreatedAt |-> 0, Deleted |-> FALSE,
     Title |-> req.Title, Description |-> req.Description,
     Language |-> req.Language, Difficulty |-> req.Difficulty,
     Category |-> req.Category, ProblemStatement |-> req.ProblemStatement,
     IsVerified |-> TRUE, VerifiedBy |-> <<1>>, ViewCount |-> 1, LikeCount |-> 0]

\* PromptCreateRequest.ToPrompt: the fields copied from the request; every
\* other field of the Prompt keeps Go's zero value.  VerifiedBy is a *uint: <<>> is
\* nil, <<u>> points to user u.
ToPrompt(req) ==
    [ID |-> 0, CreatedAt |-> 0, Deleted |-> FALSE,
     Title |-> req.Title, Description |-> req.Description,
     Language |-> req.Language, Difficulty |-> req.Difficulty,
     Category |-> req.Category, ProblemStatement |-> req.ProblemStatement,
     IsVerified |-> FALSE, VerifiedBy |-> <<>>, ViewCount |-> 0, LikeCount |-> 0]

\* BeforeCreate with its test inverted
BeforeCreateInverted(p) ==
    IF Valid(p.Difficulty) THEN [p EXCEPT !.Difficulty = DifficultyBeginner] ELSE p

\* Prompt.BeforeCreate (the hook gorm runs inside db.Create)
BeforeCreate(p) ==
    IF ~Valid(p.Difficulty) THEN [p EXCEPT !.Difficulty = DifficultyBeginner] ELSE p

----------------------------------------------------------------------------
(* errors: errors.New / fmt.Errorf("...: %w", err), as sequences of words *)

NoError == <<>>
ErrTitleRequired == <<"title", "is", "required">>
ErrTitleTooLong == <<"title", "must", "be", "less", "than", "200", "characters">>
ErrDescriptionRequired == <<"description", "is", "required">>
ErrLanguageRequired == <<"language", "is", "required">>
ErrCategoryRequired == <<"category", "is", "required">>
ErrProblemStatementRequired == <<"problem", "statement", "is", "required">>
ErrInvalidDifficultyLevel == <<"invalid", "difficulty", "level">>
ErrInvalidDifficulty == <<"invalid", "difficulty">>
ErrInvalidPromptID == <<"invalid", "prompt", "id">>
ErrPromptNotFound == <<"prompt", "not", "found">>

\* fmt.Errorf(prefix + ": %w", err)
Wrap(prefix, err) == prefix \o err

FailedToFind == <<"failed", "to", "find", "prompt:">>
FailedToCreate == <<"failed", "to", "create", "prompt:">>
FailedToDelete == <<"failed", "to", "delete", "prompt:">>

----------------------------------------------------------------------------
(* PromptRepository, on the rows of the table.  gorm.Model gives Prompt a   *)
(* DeletedAt column: Delete marks the row, and every query and update of   *)
(* the model carries "deleted_at IS NULL".                                 *)

Live(rows) == {i \in 1..Len(rows) : ~rows[i].Deleted}

\* PromptRepository.Exists
Exists(rows, id) == id \in Live(rows)

\* FindByID on db.Unscoped(): without "deleted_at IS NULL"
FindByIDUnscoped(rows, id) ==
    IF id \in 1..Len(rows)
    THEN [err |-> NoError, prompt |-> rows[id]]
    ELSE [err |-> ErrPromptNotFound, prompt |-> ToPrompt([Title |-> <<>>,
              Description |-> <<>>, Language |-> <<>>, Difficulty |-> <<>>,
              Category |-> <<>>, ProblemStatement |-> <<>>])]

\* PromptRepository.FindByID: the row, or the "prompt not found" error
FindByID(rows, id) ==
    IF id \in Live(rows)
    THEN [err |-> NoError, prompt |-> rows[id]]
    ELSE [err |-> ErrPromptNotFound, prompt |-> ToPrompt([Title |-> <<>>,
              Description |-> <<>>, Language |-> <<>>, Difficulty |-> <<>>,
              Category |-> <<>>, ProblemStatement |-> <<>>])]

\* PromptRepository.Create: db.Create runs BeforeCreate, then inserts the row
\* under the next serial id and the current creation time.
Create(rows, p) ==
    Append(rows, [BeforeCreate(p) EXCEPT !.ID = Len(rows) + 1,
                                         !.CreatedAt = Len(rows) + 1])

\* Delete without the test of RowsAffected
DeleteIgnoringRowsAffected(rows, id) ==
    IF id \in Live(rows)
    THEN [err |-> NoError, rows |-> [rows EXCEPT ![id].Deleted = TRUE]]
    ELSE [err |-> NoError, rows |-> rows]

\* PromptRepository.Delete: rows affected, and the table afterwards
Delete(rows, id) ==
    IF id \in Live(rows)
    THEN [err |-> NoError, rows |-> [rows EXCEPT ![id].Deleted = TRUE]]
    ELSE [err |-> ErrPromptNotFound, rows |-> rows]

\* IncrementViewCount as an UPDATE that writes nothing
IncrementViewCountLost(rows, id) == rows

\* PromptRepository.IncrementViewCount: UPDATE ... SET view_count = view_count + 1
\* WHERE id = ? AND deleted_at IS NULL
IncrementViewCount(rows, id) ==
    IF id \in Live(rows)
    THEN [rows EXCEPT ![id].ViewCount = rows[id].ViewCount + 1]
    ELSE rows

----------------------------------------------------------------------------
(* PromptRepository.FindAll *)

\* a *bool: Nil, or a pointer to b
Nil == <<>>
Ptr(b) == <<b>>

\* PromptRepository.applyFilters: the WHERE clauses added for a filter, as a
\* predicate on a row.  The search term goes into the LIKE pattern as it is.
applyFilters(row, filter) ==
    /\ (filter.Language # <<>> => row.Language = filter.Language)
    /\ (filter.Difficulty # <<>> => row.Difficulty = filter.Difficulty)
    /\ (filter.Category # <<>> => row.Category = filter.Category)
    /\ (filter.IsVerified # Nil => row.IsVerified = filter.IsVerified[1])
    /\ (filter.Search # <<>> =>
          LET searchTerm == <<"%">> \o ToLower(filter.Search) \o <<"%">>
          IN  \/ Like(ToLower(row.Title), searchTerm)
              \/ Like(ToLower(row.Description), searchTerm)
              \/ Like(ToLower(row.ProblemStatement), searchTerm))

\* the ids the composed query selects
Selected(rows, filter) == {i \in Live(rows) : applyFilters(rows[i], filter)}

\* ORDER BY created_at DESC over a set of ids
RECURSIVE OrderDesc(_, _)
OrderDesc(rows, ids) ==
    IF ids = {} THEN <<>>
    ELSE LET top == CHOOSE i \in ids : \A j \in ids : rows[j].CreatedAt <= rows[i].CreatedAt
         IN  <<top>> \o OrderDesc(rows, ids \ {top})

\* FindAll, first query: query.Count(&total)
CountQuery(rows, filter) == Cardinality(Selected(rows, filter))

\* FindAll, second query: offset := (page - 1) * limit in Go's int, then
\* query.Offset(offset).Limit(limit).Order("created_at DESC").Find(&prompts).
\* gorm writes the OFFSET clause only for an offset above zero.
FindQuery(rows, filter, page, limit) ==
    LET offset == Times(MinusOne(page), limit)
        sorted == OrderDesc(rows, Selected(rows, filter))
        skip == IF IsNegative(offset) \/ IsZero(offset) THEN 0
                ELSE SkipOf(offset, Len(sorted))
        last == IF skip + limit < Len(sorted) THEN skip + limit ELSE Len(sorted)
    IN  [k \in 1..(last - skip) |-> rows[sorted[skip + k]]]

----------------------------------------------------------------------------
(* PromptService *)

MaxTitleLen == 200
MaxLimit == 100
DefaultLimit == 10

\* PromptService.transformToResponse
transformToResponse(p) ==
    [ID |-> p.ID, Title |-> p.Title, Description |-> p.Description,
     Language |-> p.Language, Difficulty |-> p.Difficulty, Category |-> p.Category,
     ProblemStatement |-> p.ProblemStatement, IsVerified |-> p.IsVerified,
     ViewCount |-> p.ViewCount, LikeCount |-> p.LikeCount, CreatedAt |-> p.CreatedAt]

\* GetAllPrompts without lines 47-49
EffectivePageAsGiven(page) == page

\* GetAllPrompts, lines 47-49: if page < 1 { page = 1 }
EffectivePage(page) == IF LessThanOne(page) THEN Int64(1) ELSE page

\* GetAllPrompts clamping the limit to the nearest bound
EffectiveLimitClamped(limit) ==
    IF LessThanOne(limit) THEN 1
    ELSE IF GreaterThan(limit, MaxLimit) THEN MaxLimit
    ELSE Small(limit)

\* GetAllPrompts, lines 51-53: if limit < 1 || limit > 100 { limit = 10 }
EffectiveLimit(limit) ==
    IF LessThanOne(limit) \/ GreaterThan(limit, MaxLimit) THEN DefaultLimit ELSE Small(limit)

\* GetAllPrompts, lines 55-57: the filter's difficulty is checked before the query
FilterError(filter) ==
    IF filter.Difficulty # <<>> /\ ~Valid(filter.Difficulty)
    THEN ErrInvalidDifficulty ELSE NoError

\* GetAllPrompts dividing without rounding up
TotalPagesFloor(total, limit) == total \div limit

\* GetAllPrompts, line 69: int((total + int64(limit) - 1) / int64(limit))
TotalPages(total, limit) == (total + limit - 1) \div limit

\* GetAllPrompts, lines 64-77: the PaginationPromptResponse
PaginationPromptResponse(prompts, total, page, limit) ==
    [Data |-> [k \in 1..Len(prompts) |-> transformToResponse(prompts[k])],
     Total |-> total, Page |-> page, Limit |-> limit,
     TotalPages |-> TotalPages(total, limit)]

\* validateCreateRequest without its difficulty test
validateWithoutDifficulty(req) ==
    IF req.Title = <<>> THEN ErrTitleRequired
    ELSE IF Len(req.Title) > MaxTitleLen THEN ErrTitleTooLong
    ELSE IF req.Description = <<>> THEN ErrDescriptionRequired
    ELSE IF req.Language = <<>> THEN ErrLanguageRequired
    ELSE IF req.Category = <<>> THEN ErrCategoryRequired
    ELSE IF req.ProblemStatement = <<>> THEN ErrProblemStatementRequired
    ELSE NoError

\* validateCreateRequest testing the category before the language
validateCategoryFirst(req) ==
    IF req.Title = <<>> THEN ErrTitleRequired
    ELSE IF Len(req.Title) > MaxTitleLen THEN ErrTitleTooLong
    ELSE IF req.Description = <<>> THEN ErrDescriptionRequired
    ELSE IF req.Category = <<>> THEN ErrCategoryRequired
    ELSE IF req.Language = <<>> THEN ErrLanguageRequired
    ELSE IF req.ProblemStatement = <<>> THEN ErrProblemStatementRequired
    ELSE IF req.Difficulty # <<>> /\ ~Valid(req.Difficulty) THEN ErrInvalidDifficultyLevel
    ELSE NoError

\* PromptService.validateCreateRequest
validateCreateRequest(req) ==
    IF req.Title = <<>> THEN ErrTitleRequired
    ELSE IF Len(req.Title) > MaxTitleLen THEN ErrTitleTooLong
    ELSE IF req.Description = <<>> THEN ErrDescriptionRequired
    ELSE IF req.Language = <<>> THEN ErrLanguageRequired
    ELSE IF req.Category = <<>> THEN ErrCategoryRequired
    ELSE IF req.ProblemStatement = <<>> THEN ErrProblemStatementRequired
    ELSE IF req.Difficulty # <<>> /\ ~Valid(req.Difficulty) THEN ErrInvalidDifficultyLevel
    ELSE NoError

\* CreatePrompt, lines 104-108: ToPrompt, then the default difficulty
NewPrompt(req) ==
    LET prompt == ToPrompt(req)
    IN  IF prompt.Difficulty = <<>>
        THEN [prompt EXCEPT !.Difficulty = DifficultyBeginner] ELSE prompt

\* PromptService.CreatePrompt: the error, the table afterwards, the response
ServiceCreatePrompt(rows, req) ==
    LET err == validateCreateRequest(req)
        after == Create(rows, NewPrompt(req))
    IN  IF err # NoError
        THEN [err |-> err, rows |-> rows, data |-> <<>>]
        ELSE [err |-> NoError, rows |-> after,
              data |-> <<transformToResponse(after[Len(after)])>>]

\* GetPromptByID answering with the row as the increment leaves it
ServiceGetPromptByIDCounted(rows, id) ==
    IF id = 0 THEN [err |-> ErrInvalidPromptID, data |-> <<>>]
    ELSE LET found == FindByID(IncrementViewCount(rows, id), id)
         IN  IF found.err # NoError
             THEN [err |-> Wrap(FailedToFind, found.err), data |-> <<>>]
             ELSE [err |-> NoError, data |-> <<transformToResponse(found.prompt)>>]

\* PromptService.GetPromptByID up to the dispatch of the increment
ServiceGetPromptByID(rows, id) ==
    IF id = 0 THEN [err |-> ErrInvalidPromptID, data |-> <<>>]
    ELSE LET found == FindByID(rows, id)
         IN  IF found.err # NoError
             THEN [err |-> Wrap(FailedToFind, found.err), data |-> <<>>]
             ELSE [err |-> NoError, data |-> <<transformToResponse(found.prompt)>>]

----------------------------------------------------------------------------
(* PromptHandler: the status a handler answers a service error with *)

\* PromptHandler.GetPrompts, lines 39-51
GetPromptsStatus(err) == IF err = NoError THEN 200 ELSE 500

\* PromptHandler.GetPromptByID, lines 64-76
GetPromptByIDStatus(err) == IF err = NoError THEN 200 ELSE 404

\* CreatePrompt's handler looking for "required" alone
CreatePromptStatusRequiredOnly(err) ==
    IF err = NoError THEN 201
    ELSE IF Contains(err, <<"required">>) THEN 400
    ELSE 500

\* PromptHandler.CreatePrompt, lines 92-113
CreatePromptStatus(err) ==
    IF err = NoError THEN 201
    ELSE IF Contains(err, <<"required">>) \/ Contains(err, <<"invalid">>) THEN 400
    ELSE 500

\* PromptHandler.DeletePrompt, lines 128-145
DeletePromptStatus(err) ==
    IF err = NoError THEN 200
    ELSE IF Contains(err, <<"not", "found">>) THEN 404
    ELSE 500

----------------------------------------------------------------------------
(* PromptHandler: parsing the list query *)

\* a query parameter: absent (""), text that is no number, or a decimal int
Absent == [kind |-> "absent", value |-> Int64(0)]
NotANumber == [kind |-> "text", value |-> Int64(0)]
Decimal(x) == [kind |-> "int", value |-> x]

\* PromptHandler.parseIntQuery
parseIntQuery(raw, defaultValue) ==
    IF raw.kind = "absent" THEN defaultValue
    ELSE IF raw.kind # "int" \/ LessThanOne(raw.value) THEN defaultValue
    ELSE raw.value

\* strconv.ParseBool
ParseBoolTrue == {"1", "t", "T", "TRUE", "true", "True"}
ParseBoolFalse == {"0", "f", "F", "FALSE", "false", "False"}
ErrParseBool == <<"strconv.ParseBool:", "parsing:", "invalid", "syntax">>

\* PromptHandler.parsePromptQuery
parsePromptQuery(q) ==
    LET filter == [Language |-> q.language, Difficulty |-> <<>>,
                   Category |-> q.category, Search |-> q.search, IsVerified |-> Nil]
        page == parseIntQuery(q.page, Int64(1))
        limit == parseIntQuery(q.limit, Int64(DefaultLimit))
    IN  IF q.is_verified = "" THEN
            [err |-> NoError, filter |-> filter, page |-> page, limit |-> limit]
        ELSE IF q.is_verified \in ParseBoolTrue \cup ParseBoolFalse THEN
            [err |-> NoError, page |-> page, limit |-> limit,
             filter |-> [filter EXCEPT !.IsVerified = Ptr(q.is_verified \in ParseBoolTrue)]]
        ELSE
            [err |-> ErrParseBool, filter |-> filter, page |-> Int64(0), limit |-> Int64(0)]

----------------------------------------------------------------------------
(* The state machine *)

NoResponse == [op |-> "none"]

Response(op, request, status, err, data) ==
    [op |-> op, request |-> request, status |-> status, error |-> err, data |-> data]

InFlight == BagCardinality(views) + BagCardinality(deleting) + BagCardinality(listing)

Bag1(x) == SetToBag({x})

Init ==
    /\ store = <<>>
    /\ views = EmptyBag
    /\ deleting = EmptyBag
    /\ listing = EmptyBag
    /\ resp = NoResponse
    /\ requests = <<>>

\* POST /api/v1/prompts: PromptHandler.CreatePrompt -> PromptService.CreatePrompt
CreatePrompt(req) ==
    LET r == ServiceCreatePrompt(store, req)
    IN  /\ (r.err = NoError => Len(store) < MaxPrompts)
        /\ store' = r.rows
        /\ resp' = Response("create", req, CreatePromptStatus(r.err), r.err, r.data)
        /\ UNCHANGED <<views, deleting, listing, requests>>

\* GetPromptByID with the goroutine started before the error of FindByID is tested
GetPromptByIDDispatchFirst(id) ==
    LET r == ServiceGetPromptByID(store, id)
    IN  /\ InFlight < MaxInFlight
        /\ (r.err = NoError =>
              store[id].ViewCount + CopiesIn(id, views) < MaxViews)
        /\ views' = IF id # 0 THEN views (+) Bag1(id) ELSE views
        /\ resp' = Response("get", id, GetPromptByIDStatus(r.err), r.err, r.data)
        /\ UNCHANGED <<store, deleting, listing, requests>>

\* GET /api/v1/prompts/:id: PromptHandler.GetPromptByID -> PromptService.GetPromptByID;
\* a successful read dispatches `go IncrementViewCount(id)` and returns.
GetPromptByID(id) ==
    LET r == ServiceGetPromptByID(store, id)
    IN  /\ (r.err = NoError =>
              /\ InFlight < MaxInFlight
              /\ store[id].ViewCount + CopiesIn(id, views) < MaxViews)
        /\ views' = IF r.err = NoError THEN views (+) Bag1(id) ELSE views
        /\ resp' = Response("get", id, GetPromptByIDStatus(r.err), r.err, r.data)
        /\ UNCHANGED <<store, deleting, listing, requests>>

\* the goroutine of GetPromptByID: _ = s.promptRepo.IncrementViewCount(id)
ViewIncrement(id) ==
    /\ BagIn(id, views)
    /\ views' = views (-) Bag1(id)
    /\ store' = IncrementViewCount(store, id)
    /\ resp' = NoResponse
    /\ UNCHANGED <<deleting, listing, requests>>

\* DELETE /api/v1/prompts/:id, up to and including promptRepo.Exists(id)
DeletePromptExists(id) ==
    LET err == IF id = 0 THEN ErrInvalidPromptID
               ELSE IF ~Exists(store, id) THEN ErrPromptNotFound
               ELSE NoError
    IN  /\ (err = NoError => InFlight < MaxInFlight)
        /\ deleting' = IF err = NoError THEN deleting (+) Bag1(id) ELSE deleting
        /\ resp' = IF err = NoError THEN NoResponse
                   ELSE Response("delete", id, DeletePromptStatus(err), err, <<>>)
        /\ UNCHANGED <<store, views, listing, requests>>

\* DELETE /api/v1/prompts/:id, from promptRepo.Delete(id) to the answer
DeletePromptDelete(id) ==
    LET r == Delete(store, id)
        err == IF r.err = NoError THEN NoError ELSE Wrap(FailedToDelete, r.err)
    IN  /\ BagIn(id, deleting)
        /\ deleting' = deleting (-) Bag1(id)
        /\ store' = r.rows
        /\ resp' = Response("delete", id, DeletePromptStatus(err), err, <<>>)
        /\ UNCHANGED <<views, listing, requests>>

\* PromptService.GetAllPrompts, up to and including FindAll's Count query
GetAllPromptsCount(filter, page, limit) ==
    LET err == FilterError(filter)
        request == [filter |-> filter, page |-> page, limit |-> limit]
        call == [request |-> request, page |-> EffectivePage(page),
                 limit |-> EffectiveLimit(limit), total |-> CountQuery(store, filter)]
    IN  /\ (err = NoError => InFlight < MaxInFlight)
        /\ listing' = IF err = NoError THEN listing (+) Bag1(call) ELSE listing
        /\ resp' = IF err = NoError THEN NoResponse
                   ELSE Response("list", request, GetPromptsStatus(err), err, <<>>)
        /\ UNCHANGED <<store, views, deleting, requests>>

\* PromptService.GetAllPrompts, from FindAll's Find query to the answer
GetAllPromptsFind(call) ==
    LET prompts == FindQuery(store, call.request.filter, call.page, call.limit)
    IN  /\ BagIn(call, listing)
        /\ listing' = listing (-) Bag1(call)
        /\ resp' = Response("list", call.request, GetPromptsStatus(NoError), NoError,
                            <<PaginationPromptResponse(prompts, call.total,
                                                       call.page, call.limit)>>)
        /\ UNCHANGED <<store, views, deleting, requests>>

\* GET /api/v1/prompts: PromptHandler.GetPrompts
GetPrompts(q) ==
    LET parsed == parsePromptQuery(q)
    IN  IF parsed.err # NoError
        THEN /\ resp' = Response("list", q, 400, parsed.err, <<>>)
             /\ UNCHANGED <<store, views, deleting, listing, requests>>
        ELSE GetAllPromptsCount(parsed.filter, parsed.page, parsed.limit)

\* PromptHandler.parseUintParam: strconv.ParseUint(paramStr, 10, 32)
ErrParameterRequired == <<"Parameter", "is", "required">>
ErrInvalidParameterFormat == <<"Invalid", "parameter", "format">>

parseUintParam(raw) ==
    IF raw.kind = "absent" THEN [err |-> ErrParameterRequired, id |-> 0]
    ELSE IF \/ raw.kind # "int" \/ IsNegative(raw.value)
            \/ raw.value[3] # 0 \/ raw.value[4] # 0
         THEN [err |-> ErrInvalidParameterFormat, id |-> 0]
    ELSE [err |-> NoError, id |-> Small(raw.value)]

\* the message the handlers answer a parameter they cannot parse with
ErrInvalidPromptIDParam == <<"Invalid", "prompt", "ID">>

\* GET /api/v1/prompts/:id from the path parameter on: PromptHandler.GetPromptByID
GetPromptByIDParam(raw) ==
    LET p == parseUintParam(raw)
    IN  IF p.err # NoError
        THEN /\ resp' = Response("get", raw, 400, ErrInvalidPromptIDParam, <<>>)
             /\ UNCHANGED <<store, views, deleting, listing, requests>>
        ELSE GetPromptByID(p.id)

\* DELETE /api/v1/prompts/:id from the path parameter on, up to and including
\* promptRepo.Exists(id): PromptHandler.DeletePrompt
DeletePromptParam(raw) ==
    LET p == parseUintParam(raw)
    IN  IF p.err # NoError
        THEN /\ resp' = Response("delete", raw, 400, ErrInvalidPromptIDParam, <<>>)
             /\ UNCHANGED <<store, views, deleting, listing, requests>>
        ELSE DeletePromptExists(p.id)

----------------------------------------------------------------------------
(* The requests the clients send *)

LongTitle == [i \in 1..(MaxTitleLen + 1) |-> "a"]

Titles == {<<>>, <<"A", "b">>, LongTitle}
Descriptions == {<<>>, <<"c">>}
Languages == {<<>>, <<"g", "o">>}
Difficulties == {<<>>, DifficultyExpert, <<"bogus">>}
Categories == {<<>>, <<"a", "l", "g", "o">>}
ProblemStatements == {<<>>, <<"d">>}

\* three requests that pass validation, and differ in every filtered column
SeedRequests ==
    {[Title |-> <<"A", "b">>, Description |-> <<"c">>, Language |-> <<"g", "o">>,
      Difficulty |-> <<>>, Category |-> <<"a", "l", "g", "o">>,
      ProblemStatement |-> <<"d">>],
     [Title |-> <<"c", "d">>, Description |-> <<"c">>, Language |-> <<"p", "y">>,
      Difficulty |-> DifficultyExpert, Category |-> <<"w", "e", "b">>,
      ProblemStatement |-> <<"b", "_">>],
     [Title |-> <<"D">>, Description |-> <<"B", "c">>, Language |-> <<"g", "o">>,
      Difficulty |-> DifficultyExpert, Category |-> <<"w", "e", "b">>,
      ProblemStatement |-> <<"d">>]}

\* every combination of present, missing, oversized and invalid fields
CreateRequests ==
    [Title : Titles, Description : Descriptions, Language : Languages,
     Difficulty : Difficulties, Category : Categories,
     ProblemStatement : ProblemStatements]

IDs == 0..(MaxPrompts + 1)

\* 2^62 + 1, the page whose offset (page - 1) * limit wraps for limit = 100
WrapPage == <<1, 0, 0, 2^14>>
MinusOneInt == <<2^16 - 1, 2^16 - 1, 2^16 - 1, 2^16 - 1>>

\* 2^32, one more than ParseUint accepts for 32 bits
TooBigID == <<0, 0, 1, 0>>

\* the :id path parameters: every id as a decimal, and what is no uint32
IDParams ==
    {Decimal(Int64(id)) : id \in IDs}
    \cup {NotANumber, Decimal(MinusOneInt), Decimal(TooBigID)}

Pages == {MinusOneInt, Int64(0), Int64(1), Int64(2), Int64(3), WrapPage}
Limits == {MinusOneInt, Int64(0), Int64(1), Int64(2), Int64(MaxLimit), Int64(MaxLimit + 1)}

NoFilter ==
    [Language |-> <<>>, Difficulty |-> <<>>, Category |-> <<>>,
     Search |-> <<>>, IsVerified |-> Nil]

Filters ==
    [Language : {<<>>, <<"g", "o">>},
     Difficulty : {<<>>, DifficultyExpert, <<"bogus">>},
     Category : {<<>>, <<"w", "e", "b">>},
     Search : {<<>>, <<"B">>, <<"_">>, <<"x">>},
     IsVerified : {Nil, Ptr(TRUE), Ptr(FALSE)}]

\* list calls: every filter on the default page, every page and limit on two filters
ListCalls ==
    {[filter |-> f, page |-> Int64(1), limit |-> Int64(DefaultLimit)] : f \in Filters}
    \cup [filter : {NoFilter, [NoFilter EXCEPT !.Language = <<"g", "o">>]},
          page : Pages, limit : Limits]

Queries ==
    [language : {<<>>, <<"g", "o">>}, category : {<<>>}, search : {<<>>, <<"B">>},
     is_verified : {"", "true", "0", "yes"},
     page : {Absent, NotANumber, Decimal(Int64(0)), Decimal(Int64(2))},
     limit : {Absent, Decimal(Int64(1)), Decimal(Int64(MaxLimit + 1))}]

----------------------------------------------------------------------------
(* Specifications *)

\* the client takes the answer before it sends its next request
TakeResponse ==
    /\ resp # NoResponse
    /\ resp' = NoResponse
    /\ UNCHANGED <<store, views, deleting, listing, requests>>

\* no call in flight and no answer waiting
Idle == InFlight = 0 /\ resp = NoResponse

\* one client: list requests served one at a time, on a table filled from the
\* seed requests
NextList ==
    \/ Idle /\ \E req \in SeedRequests : CreatePrompt(req)
    \/ Idle /\ \E id \in IDs : DeletePromptExists(id)
    \/ \E id \in IDs : DeletePromptDelete(id)
    \/ Idle /\ \E c \in ListCalls : GetAllPromptsCount(c.filter, c.page, c.limit)
    \/ Idle /\ \E q \in Queries : GetPrompts(q)
    \/ \E c \in BagToSet(listing) : GetAllPromptsFind(c)
    \/ TakeResponse

SpecList == Init /\ [][NextList]_vars

\* one client: every create request, and reads and deletes of what it created
NextCreate ==
    \/ Idle /\ \E req \in CreateRequests : CreatePrompt(req)
    \/ Idle /\ \E raw \in IDParams : GetPromptByIDParam(raw)
    \/ \E id \in IDs : ViewIncrement(id)
    \/ Idle /\ \E raw \in IDParams : DeletePromptParam(raw)
    \/ \E id \in IDs : DeletePromptDelete(id)
    \/ TakeResponse

SpecCreate == Init /\ [][NextCreate]_vars

\* the list calls of the concurrent clients
SmallListCalls == [filter : {NoFilter}, page : {Int64(1), Int64(2)}, limit : {Int64(1)}]

\* the create request of the concurrent clients
SmallCreateRequests == {req \in SeedRequests : req.Difficulty = <<>>}

\* the last answer has been taken
Taken == resp = NoResponse

\* any number of clients: a request may start while others are in flight
Next ==
    \/ Taken /\ \E req \in SmallCreateRequests : CreatePrompt(req)
    \/ Taken /\ \E id \in IDs : GetPromptByID(id)
    \/ Taken /\ \E id \in IDs : ViewIncrement(id)
    \/ Taken /\ \E id \in IDs : DeletePromptExists(id)
    \/ Taken /\ \E id \in IDs : DeletePromptDelete(id)
    \/ Taken /\ \E c \in SmallListCalls : GetAllPromptsCount(c.filter, c.page, c.limit)
    \/ Taken /\ \E c \in BagToSet(listing) : GetAllPromptsFind(c)
    \/ TakeResponse

Spec == Init /\ [][Next]_vars

----------------------------------------------------------------------------
(* Properties of the list operation, under SpecList *)

\* a list request that the service answered with a page
ListAnswered == resp.op = "list" /\ resp.status = 200
Page == resp.data[1]
PageIDs == {Page.Data[k].ID : k \in 1..Len(Page.Data)}

\* the filter as the specification states it: a conjunction of the supplied
\* predicates, the search being a case-insensitive substring test
Satisfies(row, filter) ==
    /\ (filter.Language # <<>> => row.Language = filter.Language)
    /\ (filter.Difficulty # <<>> => row.Difficulty = filter.Difficulty)
    /\ (filter.Category # <<>> => row.Category = filter.Category)
    /\ (filter.IsVerified = Ptr(TRUE) => row.IsVerified)
    /\ (filter.IsVerified = Ptr(FALSE) => ~row.IsVerified)
    /\ (filter.Search # <<>> =>
          \/ ContainsText(ToLower(row.Title), ToLower(filter.Search))
          \/ ContainsText(ToLower(row.Description), ToLower(filter.Search))
          \/ ContainsText(ToLower(row.ProblemStatement), ToLower(filter.Search)))

Matching(rows, filter) == {i \in Live(rows) : Satisfies(rows[i], filter)}

\* C1: the prompts a list call counts and pages are exactly the stored,
\* non-deleted prompts that satisfy the conjunction of the supplied predicates,
\* the search being a case-insensitive substring match: the total is their
\* number, the page holds only such prompts, and holds all of them when they
\* fit on the first page.
C1_FilterIsConjunction ==
    ListAnswered =>
        LET m == Matching(store, resp.request.filter)
        IN  /\ Page.Total = Cardinality(m)
            /\ PageIDs \subseteq m
            /\ (Page.Page = Int64(1) /\ Cardinality(m) <= Page.Limit => PageIDs = m)

\* positions (p-1)*l+1 .. p*l of a sequence, in unbounded arithmetic
PositionsOf(sorted, page, limit) ==
    LET n == Len(sorted)
        before == MinusOne(page)
        first == IF GreaterThan(before, n) THEN n
                 ELSE IF Small(before) * limit < n THEN Small(before) * limit ELSE n
        last == IF first + limit < n THEN first + limit ELSE n
    IN  [k \in 1..(last - first) |-> sorted[first + k]]

\* C2: a list answer holds total = the number of matching prompts and data =
\* the matching prompts, newest first, at positions (p-1)*l+1 .. p*l for the
\* effective page p and limit l; on every page past the last match, however
\* large p, data is empty.
C2_PageIsSliceOfMatches ==
    ListAnswered =>
        LET ids == Selected(store, resp.request.filter)
            want == PositionsOf(OrderDesc(store, ids), Page.Page, Page.Limit)
        IN  /\ Page.Total = Cardinality(ids)
            /\ [k \in 1..Len(Page.Data) |-> Page.Data[k].ID] = want

\* the least k with k * limit >= total
CeilDiv(total, limit) == CHOOSE k \in 0..total : k * limit >= total /\ \A j \in 0..(k - 1) : j * limit < total

\* C3: in every list answer total_pages = ceil(total / limit) for the limit
\* of the same answer; 0 when total = 0, 1 when 1 <= total <= limit.
C3_TotalPagesIsCeiling ==
    ListAnswered =>
        /\ Page.TotalPages = CeilDiv(Page.Total, Page.Limit)
        /\ (Page.Total = 0 => Page.TotalPages = 0)
        /\ (1 <= Page.Total /\ Page.Total <= Page.Limit => Page.TotalPages = 1)

\* C3's case: more matches than the limit, so that rounding up matters
C3_Witness ==
    /\ ListAnswered
    /\ Page.Total = 2 /\ Page.Limit = 1 /\ Page.TotalPages = 2
    /\ Len(Page.Data) = 1

\* the page and limit the specification asks for, for a requested page and limit
WantedPage(page) == IF LessThanOne(page) THEN Int64(1) ELSE page
WantedLimit(limit) ==
    IF LessThanOne(limit) \/ GreaterThan(limit, 100) THEN 10 ELSE Small(limit)

\* C4: the page and limit GetAllPrompts applies to the query and reports are
\* page >= 1 and 1 <= limit <= 100: a requested page < 1 becomes 1, a
\* requested limit outside [1,100] becomes 10, in-range values stay unchanged.
C4_PageAndLimitDefaulted ==
    /\ \A c \in BagToSet(listing) :
          /\ c.page = WantedPage(c.request.page)
          /\ c.limit = WantedLimit(c.request.limit)
    /\ ListAnswered =>
          /\ ~LessThanOne(Page.Page) /\ 1 <= Page.Limit /\ Page.Limit <= 100
          /\ Page.Page = WantedPage(resp.request.page)
          /\ Page.Limit = WantedLimit(resp.request.limit)
          /\ Len(Page.Data) <= Page.Limit

\* C4's case: both the page and the limit out of range, answered on a table
\* that holds prompts
C4_Witness ==
    /\ ListAnswered
    /\ resp.request.page = Int64(0) /\ resp.request.limit = Int64(101)
    /\ Page.Page = Int64(1) /\ Page.Limit = 10
    /\ Len(Page.Data) = 2

\* C5 as stated: the limit is clamped to [1,100] (above 100 applied as 100,
\* below 1 applied as 1) and a page below 1 is applied as 1.
C5_LimitClamped ==
    ListAnswered =>
        /\ (GreaterThan(resp.request.limit, 100) => Page.Limit = 100)
        /\ (LessThanOne(resp.request.limit) => Page.Limit = 1)
        /\ (LessThanOne(resp.request.page) => Page.Page = Int64(1))

\* C5, amended: a requested limit above 100 or below 1 is replaced by the
\* default 10 (not by the nearest bound), and a requested page below 1 by 1.
C5_LimitDefaulted ==
    ListAnswered =>
        /\ (GreaterThan(resp.request.limit, 100) => Page.Limit = 10)
        /\ (LessThanOne(resp.request.limit) => Page.Limit = 10)
        /\ (LessThanOne(resp.request.page) => Page.Page = Int64(1))

\* C5's case: a limit below 1 and a page below 1, answered with limit 10 and
\* page 1
C5_Witness ==
    /\ ListAnswered
    /\ resp.request.limit = Int64(0) /\ resp.request.page = MinusOneInt
    /\ Page.Limit = 10 /\ Page.Page = Int64(1)
    /\ Page.Total >= 1

----------------------------------------------------------------------------
(* Properties of the create operation, under SpecCreate *)

Difficulty4 == {<<"beginner">>, <<"intermediate">>, <<"advanced">>, <<"expert">>}

Created == resp.op = "create" /\ resp.status = 201
CreatedRow == store[resp.data[1].ID]

\* C6: every stored prompt has one of the four difficulties, in every state
\* reached by create, fetch and delete; a create with an empty difficulty
\* stores "beginner" and a create with a valid difficulty stores it unchanged.
C6_DifficultyEnumerated ==
    /\ \A i \in 1..Len(store) : store[i].Difficulty \in Difficulty4
    /\ Created =>
          /\ (resp.request.Difficulty = <<>> => CreatedRow.Difficulty = <<"beginner">>)
          /\ (resp.request.Difficulty \in Difficulty4 =>
                  CreatedRow.Difficulty = resp.request.Difficulty)
          /\ resp.data[1].Difficulty = CreatedRow.Difficulty

\* C6's case: a create without difficulty stored as "beginner", beside a prompt
\* stored with the difficulty it asked for
C6_Witness ==
    /\ Created
    /\ resp.request.Difficulty = <<>>
    /\ CreatedRow.Difficulty = <<"beginner">>
    /\ \E i \in 1..Len(store) : store[i].Difficulty = <<"expert">>

RequiredPresent(req) ==
    /\ req.Title # <<>> /\ req.Description # <<>> /\ req.Language # <<>>
    /\ req.Category # <<>> /\ req.ProblemStatement # <<>>

BadDifficulty(req) == req.Difficulty # <<>> /\ req.Difficulty \notin Difficulty4

\* C7 as stated: a create whose difficulty is non-empty and not enumerated,
\* all required fields being present, is answered with an error whose message
\* contains "invalid".
C7_InvalidDifficultyRejected ==
    resp.op = "create" /\ BadDifficulty(resp.request) /\ RequiredPresent(resp.request) =>
        Contains(resp.error, <<"invalid">>)

\* C7, amended: a create whose difficulty is non-empty and not enumerated,
\* all required fields being present and the title at most 200 characters
\* long, is rejected with an error whose message contains "invalid"; nothing
\* is persisted and the store is unchanged.
C7_InvalidDifficultyRejectedShortTitle ==
    [][(/\ resp'.op = "create"
        /\ BadDifficulty(resp'.request)
        /\ RequiredPresent(resp'.request)
        /\ Len(resp'.request.Title) <= 200)
       => /\ Contains(resp'.error, <<"invalid">>)
          /\ resp'.data = <<>>
          /\ store' = store]_vars

\* C7's case: such a request rejected while the store holds a prompt
C7_Witness ==
    /\ resp.op = "create"
    /\ BadDifficulty(resp.request) /\ RequiredPresent(resp.request)
    /\ Len(resp.request.Title) <= 200
    /\ resp.error = <<"invalid", "difficulty", "level">>
    /\ Len(store) >= 1

\* the error naming the first missing field, in the order title, description,
\* language, category, problem statement
FirstMissing(req) ==
    IF req.Title = <<>> THEN <<"title", "is", "required">>
    ELSE IF req.Description = <<>> THEN <<"description", "is", "required">>
    ELSE IF req.Language = <<>> THEN <<"language", "is", "required">>
    ELSE IF req.Category = <<>> THEN <<"category", "is", "required">>
    ELSE <<"problem", "statement", "is", "required">>

\* C8 as stated: a create with one of the five required fields empty is
\* answered with the error naming the first missing field.
C8_FirstMissingFieldNamed ==
    resp.op = "create" /\ ~RequiredPresent(resp.request) =>
        resp.error = FirstMissing(resp.request)

\* C8, amended: a create with one of the five required fields empty is
\* answered with the error naming the first missing field, except that a
\* non-empty title longer than 200 characters is answered with the title-length
\* error before any later field is looked at; in both cases nothing is
\* persisted and the store is unchanged.
C8_FirstMissingFieldOrLongTitle ==
    [][(resp'.op = "create" /\ ~RequiredPresent(resp'.request))
       => /\ resp'.error =
                IF Len(resp'.request.Title) > 200
                THEN <<"title", "must", "be", "less", "than", "200", "characters">>
                ELSE FirstMissing(resp'.request)
          /\ resp'.data = <<>>
          /\ store' = store]_vars

\* C8's case: two fields missing, the first of them named, the store holding
\* a prompt
C8_Witness ==
    /\ resp.op = "create"
    /\ resp.request.Title # <<>> /\ resp.request.Description # <<>>
    /\ resp.request.Language = <<>> /\ resp.request.Category = <<>>
    /\ resp.error = <<"language", "is", "required">>
    /\ Len(store) >= 1

\* the request fails the validation the specification states: a required
\* field missing, the title over 200 characters, or a difficulty not enumerated
FailsValidation(req) ==
    ~RequiredPresent(req) \/ Len(req.Title) > 200 \/ BadDifficulty(req)

\* C9: POST /api/v1/prompts answers every validation failure, an oversized
\* title included, with status 400.
C9_ValidationAnswered400 ==
    resp.op = "create" /\ FailsValidation(resp.request) => resp.status = 400

----------------------------------------------------------------------------
(* Properties of the delete operation, under Spec *)

NotFound(err) == Contains(err, <<"not", "found">>)

\* the ids of the rows that were deleted
Deleted(rows) == {i \in 1..Len(rows) : rows[i].Deleted}

\* C10 as stated, first part: deleting an id for which no prompt exists
\* returns a not-found error.
C10_DeleteOfAbsentIsNotFound ==
    resp.op = "delete" /\ resp.request \notin Live(store) /\ resp.error # <<>> =>
        NotFound(resp.error)

\* C10, amended: deleting a nonzero id for which no prompt exists returns a
\* not-found error (id 0 returns "invalid prompt id") and leaves the store
\* unchanged; deleting an existing id removes it; and once an id is deleted
\* it stays deleted through every later step (creates, view-count increments
\* dispatched before the delete, ...), every fetch and every delete of it
\* is answered not-found, and no list answer holds it.
C10_DeletedStaysDeleted ==
    [][/\ \A id \in Deleted(store) : id \in Deleted(store')
       /\ (resp'.op = "delete" /\ resp'.error = <<>> =>
              resp'.request \in Live(store) /\ resp'.request \in Deleted(store'))
       /\ (resp'.op = "delete" /\ resp'.error # <<>> =>
              /\ resp'.request \notin Live(store)
              /\ store' = store
              /\ IF resp'.request = 0
                 THEN resp'.error = <<"invalid", "prompt", "id">>
                 ELSE NotFound(resp'.error) /\ resp'.status = 404)
       /\ (resp'.op = "get" /\ resp'.request \in Deleted(store) =>
              NotFound(resp'.error) /\ resp'.status = 404 /\ views' = views)
       /\ (resp'.op = "list" /\ resp'.status = 200 =>
              \A k \in 1..Len(resp'.data[1].Data) :
                  resp'.data[1].Data[k].ID \in Live(store))]_vars

\* C10's case: a prompt deleted while an increment dispatched by an earlier
\* fetch of it is still to run
C10_Witness ==
    /\ resp.op = "delete" /\ resp.error = <<>> /\ resp.request = 1
    /\ 1 \in Deleted(store)
    /\ BagIn(1, views)

----------------------------------------------------------------------------
(* The view counter, under SpecFetch: concurrent fetches, and goroutines    *)
(* that the Go scheduler runs once they are ready                           *)

NextFetch ==
    \/ Taken /\ \E req \in SmallCreateRequests : CreatePrompt(req)
    \/ Taken /\ \E id \in IDs : GetPromptByID(id)
    \/ \E id \in IDs : ViewIncrement(id)
    \/ Taken /\ \E id \in IDs : DeletePromptExists(id)
    \/ Taken /\ \E id \in IDs : DeletePromptDelete(id)
    \/ TakeResponse

SpecFetch ==
    Init /\ [][NextFetch]_vars /\ \A id \in IDs : WF_vars(ViewIncrement(id))

\* the increments dispatched for id that have not run yet
Pending(id) == CopiesIn(id, views)

\* the views of a stored prompt: those written, and those still to be written
Counted(id) == store[id].ViewCount + Pending(id)

\* this step answers a fetch of id with the prompt
Fetched(id) ==
    /\ resp = NoResponse /\ resp'.op = "get"
    /\ resp'.status = 200 /\ resp'.request = id

\* C11, every step: on a prompt that is not deleted, a successful fetch adds
\* exactly one view to the written and pending views together, no other step
\* changes that sum, and the written count never goes down; a new prompt starts
\* with no view written or pending.
C11_EveryFetchCountedOnce ==
    \A id \in IDs :
        /\ (id \in Live(store) /\ id \in Live(store')) =>
              /\ store'[id].ViewCount + CopiesIn(id, views')
                    = Counted(id) + (IF Fetched(id) THEN 1 ELSE 0)
              /\ store'[id].ViewCount >= store[id].ViewCount
        /\ (id > Len(store) /\ id \in Live(store')) =>
              store'[id].ViewCount + CopiesIn(id, views') = 0

\* C11: every successful fetch of a prompt adds exactly one view to its written
\* and pending views, and the stored view count converges: the fetches being
\* finitely many, from some point on no increment is pending, so that the
\* view_count of every prompt that is not deleted is the number of its fetches.
C11_ViewCountConverges ==
    /\ [][C11_EveryFetchCountedOnce]_vars
    /\ <>[](views = EmptyBag)

\* two fetches of one prompt answered, and both increments written
C11_Witness ==
    \E id \in Live(store) : store[id].ViewCount = 2 /\ views = EmptyBag

----------------------------------------------------------------------------
(* Storage failures: a query of the repository returns the driver's error  *)

\* what the postgres driver may report
ErrConnectionRefused == <<"connection", "refused">>
ErrInvalidByteSequence == <<"invalid", "byte", "sequence">>
ErrRelationNotFound == <<"relation", "not", "found">>
StorageErrors == {ErrConnectionRefused, ErrInvalidByteSequence, ErrRelationNotFound}

FailedToCheck == <<"failed", "to", "check", "if", "prompt", "exists:">>

\* GET /api/v1/prompts/:id when FindByID's query fails: prompt_repository.go
\* line 52 returns the driver's error, the service wraps it, the handler
\* answers it as it answers every error
GetPromptByIDFails(id, e) ==
    LET err == Wrap(FailedToFind, e)
    IN  /\ id # 0
        /\ resp' = Response("get", id, GetPromptByIDStatus(err), err, <<>>)
        /\ UNCHANGED <<store, views, deleting, listing, requests>>

\* the goroutine of GetPromptByID when the UPDATE fails: the error is dropped
ViewIncrementFails(id) ==
    /\ BagIn(id, views)
    /\ views' = views (-) Bag1(id)
    /\ resp' = NoResponse
    /\ UNCHANGED <<store, deleting, listing, requests>>

\* POST /api/v1/prompts when db.Create fails on a request that passed validation
CreatePromptFails(req, e) ==
    LET err == Wrap(FailedToCreate, e)
    IN  /\ validateCreateRequest(req) = NoError
        /\ resp' = Response("create", req, CreatePromptStatus(err), err, <<>>)
        /\ UNCHANGED <<store, views, deleting, listing, requests>>

\* DELETE /api/v1/prompts/:id when the Count query of Exists fails
DeletePromptExistsFails(id, e) ==
    LET err == Wrap(FailedToCheck, e)
    IN  /\ id # 0
        /\ resp' = Response("delete", id, DeletePromptStatus(err), err, <<>>)
        /\ UNCHANGED <<store, views, deleting, listing, requests>>

\* DELETE /api/v1/prompts/:id when db.Delete fails after Exists said yes
DeletePromptDeleteFails(id, e) ==
    LET err == Wrap(FailedToDelete, e)
    IN  /\ BagIn(id, deleting)
        /\ deleting' = deleting (-) Bag1(id)
        /\ resp' = Response("delete", id, DeletePromptStatus(err), err, <<>>)
        /\ UNCHANGED <<store, views, listing, requests>>

\* GET /api/v1/prompts when FindAll's Count query fails
GetAllPromptsCountFails(filter, page, limit, e) ==
    /\ FilterError(filter) = NoError
    /\ resp' = Response("list", [filter |-> filter, page |-> page, limit |-> limit],
                        GetPromptsStatus(e), e, <<>>)
    /\ UNCHANGED <<store, views, deleting, listing, requests>>

\* GET /api/v1/prompts when FindAll's Find query fails after the Count
GetAllPromptsFindFails(call, e) ==
    /\ BagIn(call, listing)
    /\ listing' = listing (-) Bag1(call)
    /\ resp' = Response("list", call.request, GetPromptsStatus(e), e, <<>>)
    /\ UNCHANGED <<store, views, deleting, requests>>

\* create requests: one that passes validation, and three that do not
FailCreateRequests ==
    SmallCreateRequests
    \cup {[req EXCEPT !.Title = <<>>] : req \in SmallCreateRequests}
    \cup {[req EXCEPT !.Title = LongTitle] : req \in SmallCreateRequests}
    \cup {[req EXCEPT !.Difficulty = <<"bogus">>] : req \in SmallCreateRequests}

\* no delete or list call in flight and no answer waiting
Quiet == resp = NoResponse /\ deleting = EmptyBag /\ listing = EmptyBag

\* one client whose fetches overlap with the increments of earlier fetches,
\* on a store any query of which may fail
NextFail ==
    \/ Quiet /\ \E req \in FailCreateRequests : CreatePrompt(req)
    \/ Quiet /\ \E req \in FailCreateRequests, e \in StorageErrors : CreatePromptFails(req, e)
    \/ Quiet /\ \E id \in IDs : GetPromptByID(id)
    \/ Quiet /\ \E id \in IDs, e \in StorageErrors : GetPromptByIDFails(id, e)
    \/ Taken /\ \E id \in IDs : ViewIncrement(id)
    \/ Taken /\ \E id \in IDs : ViewIncrementFails(id)
    \/ Quiet /\ \E id \in IDs : DeletePromptExists(id)
    \/ Quiet /\ \E id \in IDs, e \in StorageErrors : DeletePromptExistsFails(id, e)
    \/ Taken /\ \E id \in IDs : DeletePromptDelete(id)
    \/ Taken /\ \E id \in IDs, e \in StorageErrors : DeletePromptDeleteFails(id, e)
    \/ Quiet /\ \E c \in SmallListCalls : GetAllPromptsCount(c.filter, c.page, c.limit)
    \/ Quiet /\ \E c \in SmallListCalls, e \in StorageErrors :
                   GetAllPromptsCountFails(c.filter, c.page, c.limit, e)
    \/ Taken /\ \E c \in BagToSet(listing) : GetAllPromptsFind(c)
    \/ Taken /\ \E c \in BagToSet(listing), e \in StorageErrors : GetAllPromptsFindFails(c, e)
    \/ TakeResponse

SpecFail == Init /\ [][NextFail]_vars

----------------------------------------------------------------------------
(* Properties of the fetch response, under SpecFail *)

\* C12, every step: a successful fetch answers with the row as FindByID read
\* it, writes nothing and leaves its increment pending; and the step in which
\* an increment runs, whether it succeeds or fails, answers nothing.
C12_ResponseIsTheRowRead ==
    \A id \in IDs :
        /\ Fetched(id) =>
              /\ resp'.data = <<transformToResponse(store[id])>>
              /\ resp'.error = NoError
              /\ store' = store
              /\ views' = views (+) Bag1(id)
        /\ CopiesIn(id, views') < CopiesIn(id, views) => resp' = NoResponse

\* C12: the response of a successful fetch is the record FindByID read; it is
\* returned while the increment is pending, and no outcome of the increment
\* is reported to the caller.
C12_FetchResponseIndependent == [][C12_ResponseIsTheRowRead]_vars

\* a fetch answered while its increment and that of an earlier fetch are pending
C12_Witness ==
    /\ resp.op = "get" /\ resp.status = 200
    /\ CopiesIn(resp.request, views) = 2
    /\ resp.data[1].ViewCount = 0

----------------------------------------------------------------------------
(* Properties of the :id parameter, under SpecCreate *)

\* C13: on GET and DELETE /api/v1/prompts/:id every bad id, zero included, is
\* answered with 400 (an answer other than 400 is for a nonzero id), and 404 is
\* answered only for a well-formed nonzero id that no prompt has.
C13_BadIdAnswered400 ==
    resp.op \in {"get", "delete"} =>
        /\ resp.status # 400 => resp.request # 0
        /\ resp.status = 404 => resp.request # 0 /\ resp.request \notin Live(store)

----------------------------------------------------------------------------
(* Properties of the error answers, under SpecFail *)

\* the error of an answer is a driver's error, as it is or wrapped by the service
StorageFailure(err) ==
    \E e \in StorageErrors :
        \/ err = e
        \/ \E prefix \in {FailedToFind, FailedToCreate, FailedToDelete, FailedToCheck} :
              err = Wrap(prefix, e)

\* C14: on every prompt endpoint (list, create, fetch by id, delete) a storage
\* failure is answered with status 500, never with 404 or 400.
C14_StorageFailureAnswered500 ==
    (resp # NoResponse /\ StorageFailure(resp.error)) => resp.status = 500

\* the message has the word w
HasWord(err, w) == \E i \in 1..Len(err) : err[i] = w

\* the message has "not found"
HasNotFound(err) == \E i \in 1..(Len(err) - 1) : err[i] = "not" /\ err[i + 1] = "found"

\* C15: the handlers classify a service error by its message alone, the text of
\* a wrapped error included: on create "required" or "invalid" gives 400 and
\* every other error 500; on delete "not found" gives 404 and every other
\* error 500.
C15_ClassifiedByMessage ==
    /\ (resp.op = "create" /\ resp.error # NoError) =>
          resp.status = IF HasWord(resp.error, "required") \/ HasWord(resp.error, "invalid")
                        THEN 400 ELSE 500
    /\ (resp.op = "delete" /\ resp.error # NoError) =>
          resp.status = IF HasNotFound(resp.error) THEN 404 ELSE 500

\* a create answered with 400 for the text of the driver's error the service wrapped
C15_Witness ==
    /\ resp.op = "create" /\ resp.status = 400
    /\ resp.error = Wrap(FailedToCreate, ErrInvalidByteSequence)

----------------------------------------------------------------------------
(* models: PromptRequest, RequestStatus, Priority *)

StatusPending == <<"pending">>
StatusInReview == <<"in_review">>
StatusApproved == <<"approved">>
StatusAssigned == <<"assigned">>
StatusInProgress == <<"in_progress">>
StatusCompleted == <<"completed">>
StatusRejected == <<"rejected">>
StatusOnHold == <<"on_hold">>

\* RequestStatus.Valid without its last case
RequestStatusValidNoHold(s) ==
    s \in {StatusPending, StatusInReview, StatusApproved, StatusAssigned,
           StatusInProgress, StatusCompleted, StatusRejected}

\* RequestStatus.Valid
RequestStatusValid(s) ==
    s \in {StatusPending, StatusInReview, StatusApproved, StatusAssigned,
           StatusInProgress, StatusCompleted, StatusRejected, StatusOnHold}

PriorityLow == <<"low">>
PriorityNormal == <<"normal">>
PriorityHigh == <<"high">>
PriorityUrgent == <<"urgent">>

\* Priority.Valid
PriorityValid(p) == p \in {PriorityLow, PriorityNormal, PriorityHigh, PriorityUrgent}

\* BeforeCreate promoting the urgent request before it sets the defaults
PromptRequestBeforeCreatePromoteFirst(pr) ==
    LET p1 == IF pr.IsUrgent /\ pr.Priority = PriorityNormal
              THEN [pr EXCEPT !.Priority = PriorityHigh] ELSE pr
        p2 == IF ~RequestStatusValid(p1.Status)
              THEN [p1 EXCEPT !.Status = StatusPending] ELSE p1
        p3 == IF ~PriorityValid(p2.Priority)
              THEN [p2 EXCEPT !.Priority = PriorityNormal] ELSE p2
    IN  IF ~Valid(p3.RequestedDifficulty)
        THEN [p3 EXCEPT !.RequestedDifficulty = DifficultyBeginner] ELSE p3

\* PromptRequest.BeforeCreate
PromptRequestBeforeCreate(pr) ==
    LET p1 == IF ~RequestStatusValid(pr.Status)
              THEN [pr EXCEPT !.Status = StatusPending] ELSE pr
        p2 == IF ~PriorityValid(p1.Priority)
              THEN [p1 EXCEPT !.Priority = PriorityNormal] ELSE p1
        p3 == IF ~Valid(p2.RequestedDifficulty)
              THEN [p2 EXCEPT !.RequestedDifficulty = DifficultyBeginner] ELSE p2
    IN  IF p3.IsUrgent /\ p3.Priority = PriorityNormal
        THEN [p3 EXCEPT !.Priority = PriorityHigh] ELSE p3

\* PromptRequestCreateRequest.ToPromptRequest
ToPromptRequest(req) ==
    [ID |-> 0, RequestedDifficulty |-> req.RequestedDifficulty,
     IsUrgent |-> req.IsUrgent,
     Priority |-> IF req.IsUrgent THEN PriorityHigh ELSE PriorityNormal,
     Status |-> StatusPending]

\* db.Create(&PromptRequest{...}): gorm runs BeforeCreate, then inserts the row
\* under the next serial id
CreatePromptRequest(pr) ==
    LET row == [PromptRequestBeforeCreate(pr) EXCEPT !.ID = Len(requests) + 1]
    IN  /\ Len(requests) < MaxRequests
        /\ requests' = Append(requests, row)
        /\ resp' = Response("request", pr, 201, NoError, <<row>>)
        /\ UNCHANGED <<store, views, deleting, listing>>

\* the public form: ToPromptRequest, then db.Create
SubmitPromptRequest(req) == CreatePromptRequest(ToPromptRequest(req))

\* the PromptRequest values created
PromptRequests ==
    [ID : {0}, RequestedDifficulty : {<<>>, DifficultyExpert}, IsUrgent : BOOLEAN,
     Priority : {<<>>, <<"bogus">>, PriorityLow, PriorityNormal, PriorityHigh, PriorityUrgent},
     Status : {<<>>, StatusPending, StatusOnHold}]

\* the forms submitted
PromptRequestCreateRequests ==
    [RequestedDifficulty : {<<>>, DifficultyExpert, <<"bogus">>}, IsUrgent : BOOLEAN]

\* PromptRequestUpdateRequest applied to row id.  The update operation is not
\* part of the source given; it follows the request lifecycle section of the
\* specification: a status that RequestStatus.Valid recognizes is written
\* whatever the current status, a nil status leaves the row as it is.
ErrRequestNotFound == <<"request", "not", "found">>
ErrInvalidStatus == <<"invalid", "status">>

UpdatePromptRequest(id, update) ==
    IF id \notin 1..Len(requests) THEN
        /\ resp' = Response("update", [id |-> id, update |-> update, was |-> <<>>],
                            404, ErrRequestNotFound, <<>>)
        /\ UNCHANGED <<store, views, deleting, listing, requests>>
    ELSE IF update.Status # Nil /\ ~RequestStatusValid(update.Status[1]) THEN
        /\ resp' = Response("update",
                            [id |-> id, update |-> update, was |-> requests[id].Status],
                            400, ErrInvalidStatus, <<>>)
        /\ UNCHANGED <<store, views, deleting, listing, requests>>
    ELSE
        LET row == IF update.Status = Nil THEN requests[id]
                   ELSE [requests[id] EXCEPT !.Status = update.Status[1]]
        IN  /\ requests' = [requests EXCEPT ![id] = row]
            /\ resp' = Response("update",
                                [id |-> id, update |-> update, was |-> requests[id].Status],
                                200, NoError, <<row>>)
            /\ UNCHANGED <<store, views, deleting, listing>>

\* the updates sent: no status, every recognized status, and two that are not
PromptRequestUpdateRequests ==
    [Status : {Nil, Ptr(<<>>), Ptr(<<"bogus">>), Ptr(StatusPending), Ptr(StatusInReview),
               Ptr(StatusApproved), Ptr(StatusAssigned), Ptr(StatusInProgress),
               Ptr(StatusCompleted), Ptr(StatusRejected), Ptr(StatusOnHold)}]

RequestIDs == 1..(MaxRequests + 1)

----------------------------------------------------------------------------
(* models: UserRole *)

RoleContributor == <<"contributor">>
RoleModerator == <<"moderator">>
RoleAdmin == <<"admin">>
RoleSuperAdmin == <<"super_admin">>

\* UserRole.CanCreatePrompts
CanCreatePrompts(r) ==
    r = RoleContributor \/ r = RoleModerator \/ r = RoleAdmin \/ r = RoleSuperAdmin

\* CanVerifyPrompts given to the moderator alone
CanVerifyPromptsModeratorOnly(r) == r = RoleModerator

\* UserRole.CanVerifyPrompts
CanVerifyPrompts(r) == r = RoleModerator \/ r = RoleAdmin \/ r = RoleSuperAdmin

\* UserRole.CanManageRequests
CanManageRequests(r) == r = RoleModerator \/ r = RoleAdmin \/ r = RoleSuperAdmin

\* UserRole.CanManageUsers
CanManageUsers(r) == r = RoleAdmin \/ r = RoleSuperAdmin

\* the four predicates asked of one role
Capabilities(r) ==
    [CanCreatePrompts |-> CanCreatePrompts(r), CanVerifyPrompts |-> CanVerifyPrompts(r),
     CanManageRequests |-> CanManageRequests(r), CanManageUsers |-> CanManageUsers(r)]

Authorize(r) ==
    /\ resp' = Response("role", r, 200, NoError, <<Capabilities(r)>>)
    /\ UNCHANGED <<store, views, deleting, listing, requests>>

\* the roles asked about: the four of the enumeration, none, and an unknown one
UserRoles ==
    {RoleContributor, RoleModerator, RoleAdmin, RoleSuperAdmin, <<>>, <<"owner">>}

----------------------------------------------------------------------------
(* The request and user models, under SpecModels *)

NextModels ==
    \/ Taken /\ \E pr \in PromptRequests : CreatePromptRequest(pr)
    \/ Taken /\ \E req \in PromptRequestCreateRequests : SubmitPromptRequest(req)
    \/ Taken /\ \E id \in RequestIDs, update \in PromptRequestUpdateRequests :
                   UpdatePromptRequest(id, update)
    \/ Taken /\ \E r \in UserRoles : Authorize(r)
    \/ TakeResponse

SpecModels == Init /\ [][NextModels]_vars

\* C16: a PromptRequest created with is_urgent set and a priority that is
\* empty, invalid or "normal" is stored with priority "high"; a priority of
\* low, high or urgent is stored as given; without is_urgent an empty or
\* invalid priority is stored as "normal".
C16_UrgentPromotedToHigh ==
    resp.op = "request" =>
        LET given == resp.request
            stored == requests[resp.data[1].ID]
        IN  /\ stored = resp.data[1]
            /\ stored.Priority =
                  IF given.Priority \in {<<"low">>, <<"high">>, <<"urgent">>}
                  THEN given.Priority
                  ELSE IF given.IsUrgent THEN <<"high">> ELSE <<"normal">>
            /\ stored.IsUrgent = given.IsUrgent

\* an urgent request that gave no priority, stored
C16_Witness ==
    /\ resp.op = "request" /\ resp.request.IsUrgent
    /\ resp.request.Priority = <<>>
    /\ requests[1].Priority = PriorityHigh

\* the recognized set of statuses
RecognizedStatuses ==
    {<<"pending">>, <<"in_review">>, <<"approved">>, <<"assigned">>,
     <<"in_progress">>, <<"completed">>, <<"rejected">>, <<"on_hold">>}

\* C17: whatever the current status of a PromptRequest, an update that sets
\* its status to a value of the recognized set is accepted and written;
\* reachability from the current status is not checked.
C17_AnyRecognizedStatusAccepted ==
    (/\ resp.op = "update"
     /\ resp.request.id \in 1..Len(requests)
     /\ resp.request.update.Status # Nil
     /\ resp.request.update.Status[1] \in RecognizedStatuses) =>
        /\ resp.status = 200
        /\ requests[resp.request.id].Status = resp.request.update.Status[1]
        /\ resp.data = <<requests[resp.request.id]>>

\* a completed request set back to pending
C17_Witness ==
    /\ resp.op = "update" /\ resp.status = 200
    /\ resp.request.was = StatusCompleted
    /\ requests[resp.request.id].Status = StatusPending

\* the role order contributor < moderator < admin < super_admin; 0 for a value
\* that is none of the four
RoleRank(r) ==
    CASE r = <<"contributor">> -> 1
      [] r = <<"moderator">> -> 2
      [] r = <<"admin">> -> 3
      [] r = <<"super_admin">> -> 4
      [] OTHER -> 0

FourRoles == {<<"contributor">>, <<"moderator">>, <<"admin">>, <<"super_admin">>}

\* C18: each capability a role has, every higher role has too; managing users
\* implies verifying prompts and managing requests, each of which implies
\* creating prompts; a value outside the four roles has no capability.
C18_CapabilitiesMonotone ==
    resp.op = "role" =>
        LET r == resp.request
            caps == resp.data[1]
        IN  /\ \A higher \in FourRoles :
                  (RoleRank(r) > 0 /\ RoleRank(higher) > RoleRank(r)) =>
                      /\ caps.CanCreatePrompts => CanCreatePrompts(higher)
                      /\ caps.CanVerifyPrompts => CanVerifyPrompts(higher)
                      /\ caps.CanManageRequests => CanManageRequests(higher)
                      /\ caps.CanManageUsers => CanManageUsers(higher)
            /\ caps.CanManageUsers => caps.CanVerifyPrompts /\ caps.CanManageRequests
            /\ (caps.CanVerifyPrompts \/ caps.CanManageRequests) => caps.CanCreatePrompts
            /\ RoleRank(r) = 0 =>
                  /\ ~caps.CanCreatePrompts /\ ~caps.CanVerifyPrompts
                  /\ ~caps.CanManageRequests /\ ~caps.CanManageUsers

\* the moderator: verifies prompts and manages requests, but not users
C18_Witness ==
    /\ resp.op = "role" /\ resp.request = RoleModerator
    /\ resp.data[1].CanVerifyPrompts /\ resp.data[1].CanManageRequests
    /\ ~resp.data[1].CanManageUsers

----------------------------------------------------------------------------
(* Concurrent requests, under Spec *)

\* this step answers a delete of id
DeleteAnswered(id) ==
    /\ resp = NoResponse /\ resp'.op = "delete"
    /\ resp'.request = id

\* this step removes the prompt id
Removed(id) == id \in Live(store) /\ id \notin Live(store')

\* C19, every step: a prompt is removed in exactly the steps that answer a
\* delete of it with success; a delete that finds the prompt gone, before or
\* after its own existence test, is answered 404 and writes nothing; and a
\* removed prompt is not restored.
C19_OneDeleteSucceeds ==
    \A id \in IDs \ {0} :
        /\ Removed(id) <=> (DeleteAnswered(id) /\ resp'.status = 200)
        /\ (DeleteAnswered(id) /\ ~Removed(id)) =>
              /\ resp'.status = 404
              /\ store' = store
        /\ id \in Deleted(store) => id \in Deleted(store')

\* C19: of the delete requests for one existing id, concurrent ones included,
\* exactly one is answered with success and removes the prompt; every other is
\* answered not-found (404), never 500.
C19_ConcurrentDeletes == [][C19_OneDeleteSucceeds]_vars

\* a delete that passed the existence test and then found the prompt removed by
\* another delete
C19_Witness ==
    /\ resp.op = "delete" /\ resp.status = 404
    /\ resp.error = Wrap(FailedToDelete, ErrPromptNotFound)
    /\ resp.request \in Deleted(store)

\* the rows a page holds when total rows match: min(limit, max(0, total - (page-1)*limit))
RowsOfPage(total, page, limit) ==
    IF ~Fits(page) \/ (Small(page) - 1) * limit >= total THEN 0
    ELSE IF total - (Small(page) - 1) * limit < limit
         THEN total - (Small(page) - 1) * limit
    ELSE limit

\* C20: in every list response the number of rows in data is the number the
\* reported total, page and limit give, also when creates and deletes run
\* between the two queries of the list.
C20_TotalAndDataAgree ==
    ListAnswered => Len(Page.Data) = RowsOfPage(Page.Total, Page.Page, Page.Limit)

----------------------------------------------------------------------------
(* Frame of the fetch, under SpecFail *)

\* this step answers a fetch
FetchAnswered == resp = NoResponse /\ resp'.op = "get"

\* C21, every step: a fetch that fails (id 0, no such prompt, or a failure of
\* FindByID's query) leaves the pending increments and every stored prompt as
\* they are; a fetch that succeeds dispatches one increment for its id and
\* writes nothing; and no other step dispatches an increment.
C21_IncrementOnlyAfterFind ==
    /\ (FetchAnswered /\ resp'.status # 200) =>
          /\ resp'.error # NoError
          /\ views' = views
          /\ store' = store
    /\ (FetchAnswered /\ resp'.status = 200) =>
          /\ resp'.request \in Live(store)
          /\ views' = views (+) Bag1(resp'.request)
          /\ store' = store
    /\ \A id \in IDs :
          CopiesIn(id, views') > CopiesIn(id, views) =>
              /\ FetchAnswered /\ resp'.status = 200 /\ resp'.request = id
              /\ CopiesIn(id, views') = CopiesIn(id, views) + 1

\* C21: a failed fetch dispatches no view-count increment and changes no stored
\* prompt; an increment is dispatched only by a fetch whose FindByID
\* succeeded, once per such fetch.
C21_FailedFetchDispatchesNothing == [][C21_IncrementOnlyAfterFind]_vars

\* a fetch of a stored prompt that failed in FindByID's query, nothing dispatched
C21_Witness ==
    /\ resp.op = "get" /\ resp.status # 200
    /\ resp.error = Wrap(FailedToFind, ErrConnectionRefused)
    /\ resp.request \in Live(store)
    /\ views = EmptyBag
    /\ store[resp.request].ViewCount = 0

----------------------------------------------------------------------------
(* The create operation from the request body on *)

\* what c.BodyParser reports for a body that is no JSON object
ErrBodyParser == <<"unexpected", "end", "of", "JSON", "input">>

\* c.BodyParser(&createReq): the keys of the body that name a json tag of
\* PromptCreateRequest fill the struct; every other key is dropped.
BodyParser(body) ==
    IF ~body.well_formed
    THEN [err |-> ErrBodyParser, req |-> <<>>]
    ELSE [err |-> NoError,
          req |-> [Title |-> body.title, Description |-> body.description,
                   Language |-> body.language, Difficulty |-> body.difficulty,
                   Category |-> body.category,
                   ProblemStatement |-> body.problem_statement]]

\* POST /api/v1/prompts from the raw body: PromptHandler.CreatePrompt
CreatePromptBody(body) ==
    LET parsed == BodyParser(body)
        r == ServiceCreatePrompt(store, parsed.req)
    IN  IF parsed.err # NoError
        THEN /\ resp' = Response("create", body, 400, parsed.err, <<>>)
             /\ UNCHANGED <<store, views, deleting, listing, requests>>
        ELSE /\ (r.err = NoError => Len(store) < MaxPrompts)
             /\ store' = r.rows
             /\ resp' = Response("create", body, CreatePromptStatus(r.err), r.err, r.data)
             /\ UNCHANGED <<views, deleting, listing, requests>>

\* the fields of the bodies: a valid request, and the same without title
BodyRequests ==
    SmallCreateRequests \cup {[req EXCEPT !.Title = <<>>] : req \in SmallCreateRequests}

\* request bodies: the fields of a request, with and without keys that name
\* the verification and counter columns, and a body that does not parse
Bodies ==
    {[well_formed |-> wf,
      title |-> req.Title, description |-> req.Description,
      language |-> req.Language, difficulty |-> req.Difficulty,
      category |-> req.Category, problem_statement |-> req.ProblemStatement,
      is_verified |-> v, verified_by |-> by, view_count |-> vc, like_count |-> lc] :
        req \in BodyRequests, wf \in BOOLEAN, v \in {Nil, Ptr(TRUE)},
        by \in {Nil, Ptr(1)}, vc \in {Nil, Ptr(7)}, lc \in {Nil, Ptr(3)}}

\* creates from raw bodies, with lists, fetches, their increments and deletes
NextBody ==
    \/ Taken /\ \E body \in Bodies : CreatePromptBody(body)
    \/ Taken /\ \E id \in IDs : GetPromptByID(id)
    \/ Taken /\ \E id \in IDs : ViewIncrement(id)
    \/ Quiet /\ \E id \in IDs : DeletePromptExists(id)
    \/ Taken /\ \E id \in IDs : DeletePromptDelete(id)
    \/ Quiet /\ \E c \in SmallListCalls : GetAllPromptsCount(c.filter, c.page, c.limit)
    \/ Taken /\ \E c \in BagToSet(listing) : GetAllPromptsFind(c)
    \/ TakeResponse

SpecBody == Init /\ [][NextBody]_vars

\* the prompt is as the create operation leaves a new one
Fresh(p) ==
    /\ ~p.IsVerified
    /\ p.VerifiedBy = Nil
    /\ p.ViewCount = 0
    /\ p.LikeCount = 0

\* C22, every step: rows are only appended, and an appended row is unverified,
\* has no verifier and has both counters at 0; a row already stored keeps
\* is_verified, its verifier and like_count; its view_count either stays or
\* grows by exactly 1, and it grows only in a step that runs one pending
\* increment of that row (dispatched by a successful fetch, C21).
C22_CountersStep ==
    /\ Len(store') >= Len(store)
    /\ \A id \in (Len(store) + 1)..Len(store') : Fresh(store'[id])
    /\ \A id \in 1..Len(store) :
          /\ store'[id].IsVerified = store[id].IsVerified
          /\ store'[id].VerifiedBy = store[id].VerifiedBy
          /\ store'[id].LikeCount = store[id].LikeCount
          /\ store'[id].ViewCount \in {store[id].ViewCount, store[id].ViewCount + 1}
          /\ store'[id].ViewCount # store[id].ViewCount =>
                /\ BagIn(id, views)
                /\ views' = views (-) Bag1(id)

\* C22: a created prompt starts unverified, without verifier, with view_count
\* and like_count 0 whatever its request body holds; no create, list, fetch or
\* delete ever makes a prompt verified or lowers a view_count, and view_count
\* changes only by the +1 of an increment dispatched by a successful fetch.
C22_CreatedUnverifiedAndCountsFromZero ==
    /\ [](\A id \in 1..Len(store) : ~store[id].IsVerified /\ store[id].VerifiedBy = Nil)
    /\ [][C22_CountersStep]_vars

\* a prompt just created from a body that names is_verified, verified_by,
\* view_count and like_count, next to a prompt that has been viewed once
C22_Witness ==
    /\ resp.op = "create" /\ resp.status = 201
    /\ resp.request.is_verified = Ptr(TRUE)
    /\ resp.request.verified_by = Ptr(1)
    /\ resp.request.view_count = Ptr(7)
    /\ resp.request.like_count = Ptr(3)
    /\ Len(store) = 2
    /\ Fresh(store[2])
    /\ store[1].ViewCount = 1
    /\ ~store[1].IsVerified

====
